---- MODULE Spec2Model ----
(***************************************************************************)
(* Model of serve.py: the request handler CustomHandler of the static      *)
(* single-page-application server (do_GET, end_headers) together with the  *)
(* file system it reads and the library calls it makes (translate_path,    *)
(* guess_type, send_response, send_error).                                 *)
(*                                                                         *)
(* Text that the code inspects character by character (request paths, the  *)
(* Accept-Encoding header, file names, the decimal Content-Length) is a    *)
(* sequence of one-character strings, so that startswith, endswith, lower, *)
(* `in`, split and str are computed, not assumed.  Text that the code only *)
(* passes along (header names, MIME types, fixed header values) is a       *)
(* TLA+ string.                                                            *)
(***************************************************************************)
EXTENDS Integers, Sequences, FiniteSets, TLC

(***************************************************************************)
(* Bounds of the model and constants of the program                        *)
(***************************************************************************)
\* Number of times another process changes the served directory in a run.
MaxFsChanges == 1
\* File lengths range over MIN_COMPRESS_SIZE .. MIN_COMPRESS_SIZE + SizeSpread.
SizeSpread == 1
\* serve.py line 89: len(content) > 1024
MIN_COMPRESS_SIZE == 1024

(***************************************************************************)
(* Text literals                                                           *)
(***************************************************************************)
EMPTY == << >>
ROOT_PATH == <<"/">>
SW_JS_PATH == <<"/", "s", "w", ".", "j", "s">>
INDEX_PATH == <<"/", "i", "n", "d", "e", "x", ".", "h", "t", "m", "l">>
PRIVACY_PREFIX == <<"/", "p", "r", "i", "v", "a", "c", "y">>
SW_SUFFIX == <<"s", "w", ".", "j", "s">>
HTML_SUFFIX == <<".", "h", "t", "m", "l">>
GZIP_TOKEN == <<"g", "z", "i", "p">>

\* The suffixes of line 51, in the order of the tuple.
STATIC_SUFFIXES ==
    { <<".", "c", "s", "s">>, <<".", "j", "s">>, <<".", "p", "n", "g">>,
      <<".", "j", "p", "g">>, <<".", "j", "p", "e", "g">>, <<".", "g", "i", "f">>,
      <<".", "i", "c", "o">>, <<".", "s", "v", "g">>, <<".", "w", "o", "f", "f">>,
      <<".", "w", "o", "f", "f", "2">> }

\* Names that can exist in the served directory.
N_index == <<"i", "n", "d", "e", "x", ".", "h", "t", "m", "l">>
N_sw == <<"s", "w", ".", "j", "s">>
N_logo == <<"l", "o", "g", "o", ".", "p", "n", "g">>
N_privacy == <<"p", "r", "i", "v", "a", "c", "y", ".", "h", "t", "m", "l">>
Names == { N_index, N_sw, N_logo, N_privacy }

\* main(): required_files (only the one the handler itself refers to is kept).
required_files == { N_index }

\* Request paths a client sends.
Paths ==
    { EMPTY,
      ROOT_PATH,
      SW_JS_PATH,
      INDEX_PATH,
      <<"/", "l", "o", "g", "o", ".", "p", "n", "g">>,
      PRIVACY_PREFIX,
      <<"/", "p", "r", "i", "v", "a", "c", "y", ".", "h", "t", "m", "l">>,
      <<"/", "p", "r", "i", "v", "a", "c", "y", ".", "h", "t", "m", "l", "/", "x">>,
      <<"/", "p", "r", "i", "v", "a", "c", "y", "/", "X", ".", "H", "T", "M", "L">>,
      <<"/", "u", "n", "k", "n", "o", "w", "n", "/", "r", "o", "u", "t", "e">>,
      <<"/", "?", "q", "=", "1">>,
      <<"/", "s", "w", "%", "2", "E", "j", "s">>,
      <<"/", ".", "/", "s", "w", ".", "j", "s">>,
      <<"/", "i", "n", "d", "e", "x", ".", "h", "t", "m", "l", "?", "v", "=", "2">> }

\* Request headers: no Accept-Encoding header at all, or one with a value.
RequestHeaders ==
    { << >>,
      << <<"b", "r", ",", " ", "g", "z", "i", "p">> >>,
      << <<"G", "Z", "I", "P">> >> }

\* self.headers.get('Accept-Encoding', default)
headers_get(h, default) == IF h = << >> THEN default ELSE h[1]

(***************************************************************************)
(* str methods                                                             *)
(***************************************************************************)
startswith(s, prefix) ==
    /\ Len(prefix) <= Len(s)
    /\ SubSeq(s, 1, Len(prefix)) = prefix

endswith(s, suffix) ==
    /\ Len(suffix) <= Len(s)
    /\ SubSeq(s, Len(s) - Len(suffix) + 1, Len(s)) = suffix

endswith_any(s, suffixes) == \E x \in suffixes : endswith(s, x)

\* needle in haystack
contains(haystack, needle) ==
    \E i \in 1..(Len(haystack) - Len(needle) + 1) :
        SubSeq(haystack, i, i + Len(needle) - 1) = needle

UPPER == <<"A", "B", "C", "D", "E", "F", "G", "H", "I", "J", "K", "L", "M",
           "N", "O", "P", "Q", "R", "S", "T", "U", "V", "W", "X", "Y", "Z">>
LOWER == <<"a", "b", "c", "d", "e", "f", "g", "h", "i", "j", "k", "l", "m",
           "n", "o", "p", "q", "r", "s", "t", "u", "v", "w", "x", "y", "z">>

lower_char(c) ==
    IF \E i \in 1..Len(UPPER) : UPPER[i] = c
    THEN LOWER[CHOOSE i \in 1..Len(UPPER) : UPPER[i] = c]
    ELSE c

lower(s) == [i \in 1..Len(s) |-> lower_char(s[i])]

\* s.split(sep, 1)[0]
before_first(s, sep) ==
    IF \E i \in 1..Len(s) : s[i] = sep
    THEN SubSeq(s, 1, (CHOOSE i \in 1..Len(s) :
                          /\ s[i] = sep
                          /\ \A j \in 1..(i - 1) : s[j] # sep) - 1)
    ELSE s

\* s.split(sep)
RECURSIVE split(_, _)
split(s, sep) ==
    IF \E i \in 1..Len(s) : s[i] = sep
    THEN LET i == CHOOSE k \in 1..Len(s) :
                      /\ s[k] = sep
                      /\ \A j \in 1..(k - 1) : s[j] # sep
         IN  <<SubSeq(s, 1, i - 1)>> \o split(SubSeq(s, i + 1, Len(s)), sep)
    ELSE <<s>>

DIGITS == <<"0", "1", "2", "3", "4", "5", "6", "7", "8", "9">>

\* str(n) for n >= 0
RECURSIVE str(_)
str(n) ==
    IF n < 10 THEN <<DIGITS[n + 1]>>
    ELSE str(n \div 10) \o <<DIGITS[(n % 10) + 1]>>

(***************************************************************************)
(* urllib.parse.unquote, for the escapes that occur in Paths               *)
(***************************************************************************)
HexEscapes ==
    { << <<"2", "E">>, "." >>, << <<"2", "e">>, "." >>,
      << <<"2", "F">>, "/" >>, << <<"2", "0">>, " " >> }

RECURSIVE unquote(_)
unquote(s) ==
    IF s = EMPTY THEN EMPTY
    ELSE IF /\ s[1] = "%"
            /\ Len(s) >= 3
            /\ \E e \in HexEscapes : e[1] = SubSeq(s, 2, 3)
         THEN <<(CHOOSE e \in HexEscapes : e[1] = SubSeq(s, 2, 3))[2]>>
                  \o unquote(SubSeq(s, 4, Len(s)))
         ELSE <<s[1]>> \o unquote(Tail(s))

(***************************************************************************)
(* SimpleHTTPRequestHandler.translate_path, called at lines 70 and 75      *)
(***************************************************************************)
CURDIR == <<".">>
PARDIR == <<".", ".">>

\* posixpath.normpath on the components of an absolute path
RECURSIVE normwords(_, _)
normwords(words, acc) ==
    IF words = << >> THEN acc
    ELSE LET w == Head(words)
         IN  IF w = EMPTY \/ w = CURDIR THEN normwords(Tail(words), acc)
             ELSE IF w = PARDIR
                  THEN normwords(Tail(words),
                                 IF acc = << >> THEN acc
                                 ELSE SubSeq(acc, 1, Len(acc) - 1))
                  ELSE normwords(Tail(words), Append(acc, w))

\* The result is the list of components below the served directory and
\* whether the path keeps a trailing slash.
translate_path(p) ==
    LET noquery == before_first(before_first(p, "?"), "#")
        decoded == unquote(noquery)
    IN  [ words |-> normwords(split(decoded, "/"), << >>),
          slash |-> endswith(noquery, <<"/">>) ]

(***************************************************************************)
(* The served directory                                                    *)
(***************************************************************************)
Sizes == MIN_COMPRESS_SIZE .. (MIN_COMPRESS_SIZE + SizeSpread)

Absent == [kind |-> "absent", len |-> 0]
Directory == [kind |-> "dir", len |-> 0]
\* A regular file the server process has no permission to read.
Unreadable == [kind |-> "unreadable", len |-> 0]
NotADirectory == [kind |-> "enotdir", len |-> 0]
RegularFile(n) == [kind |-> "file", len |-> n]

Entries == { Absent, Directory, Unreadable } \cup { RegularFile(n) : n \in Sizes }

\* What the operating system finds at the components `words` (directories
\* of the model have no children).
RECURSIVE lookup(_, _)
lookup(fsys, words) ==
    IF words = << >> THEN Directory
    ELSE IF Len(words) = 1
         THEN IF words[1] \in Names THEN fsys[words[1]] ELSE Absent
         ELSE LET parent == lookup(fsys, SubSeq(words, 1, Len(words) - 1))
              IN  IF parent.kind \in {"file", "unreadable", "enotdir"}
                  THEN NotADirectory
                  ELSE Absent

stat(fsys, fp) ==
    LET e == lookup(fsys, fp.words)
    IN  IF fp.slash /\ e.kind \in {"file", "unreadable"} THEN NotADirectory ELSE e

\* Mutation: os.path.isfile in place of os.path.exists.
os_path_isfile(fsys, fp) == stat(fsys, fp).kind \in {"file", "unreadable"}

\* os.path.exists, line 73
os_path_exists(fsys, fp) == stat(fsys, fp).kind \in {"file", "dir", "unreadable"}

\* The exception open(file_path, 'rb') raises, or "none" (line 82).
open_error(fsys, fp) ==
    LET k == stat(fsys, fp).kind
    IN  CASE k = "file" -> "none"
          [] k = "absent" -> "FileNotFoundError"
          [] k = "dir" -> "IsADirectoryError"
          [] k = "unreadable" -> "PermissionError"
          [] k = "enotdir" -> "NotADirectoryError"

\* f.read(), line 83: the bytes are abstracted to the file they come from
\* and their number.
file_read(fsys, fp) ==
    [src |-> fp.words, len |-> stat(fsys, fp).len, encoding |-> "identity"]

NoContent == [src |-> << >>, len |-> 0, encoding |-> "none"]

(***************************************************************************)
(* MIME types: lines 20-24 and SimpleHTTPRequestHandler.guess_type         *)
(***************************************************************************)
\* posixpath.splitext(...)[1] of the last component
splitext_ext(word) ==
    IF \E i \in 2..Len(word) : word[i] = "."
    THEN LET i == CHOOSE k \in 2..Len(word) :
                      /\ word[k] = "."
                      /\ \A j \in (k + 1)..Len(word) : word[j] # "."
         IN  SubSeq(word, i, Len(word))
    ELSE EMPTY

types_map ==
    { << <<".", "j", "s">>, "application/javascript" >>,
      << <<".", "c", "s", "s">>, "text/css" >>,
      << <<".", "j", "s", "o", "n">>, "application/json" >>,
      << <<".", "w", "e", "b", "m", "a", "n", "i", "f", "e", "s", "t">>,
         "application/manifest+json" >>,
      << <<".", "s", "v", "g">>, "image/svg+xml" >>,
      << <<".", "h", "t", "m", "l">>, "text/html" >>,
      << <<".", "p", "n", "g">>, "image/png" >>,
      << <<".", "t", "x", "t">>, "text/plain" >> }

guess_type(fp) ==
    LET ext == IF fp.words = << >> \/ fp.slash THEN EMPTY
               ELSE lower(splitext_ext(fp.words[Len(fp.words)]))
    IN  IF \E t \in types_map : t[1] = ext
        THEN (CHOOSE t \in types_map : t[1] = ext)[2]
        ELSE "application/octet-stream"

\* CustomHandler.__init__, lines 31-34
compressible_types ==
    { "text/html", "text/css", "application/javascript", "application/json",
      "text/plain", "application/xml", "application/manifest+json",
      "image/svg+xml" }

(***************************************************************************)
(* end_headers, lines 37-60                                                *)
(***************************************************************************)
\* Mutation: the security headers only, the CORS headers of lines 45-47 left out.
fixed_headers_without_cors ==
    << <<"X-Content-Type-Options", "nosniff">>,
       <<"X-Frame-Options", "DENY">>,
       <<"X-XSS-Protection", "1; mode=block">>,
       <<"Referrer-Policy", "strict-origin-when-cross-origin">> >>

\* lines 39-47
fixed_headers ==
    << <<"X-Content-Type-Options", "nosniff">>,
       <<"X-Frame-Options", "DENY">>,
       <<"X-XSS-Protection", "1; mode=block">>,
       <<"Referrer-Policy", "strict-origin-when-cross-origin">>,
       <<"Access-Control-Allow-Origin", "*">>,
       <<"Access-Control-Allow-Methods", "GET, POST, OPTIONS">>,
       <<"Access-Control-Allow-Headers", "Content-Type">> >>

NO_CACHE_HEADERS ==
    << <<"Cache-Control", "no-cache, no-store, must-revalidate">>,
       <<"Pragma", "no-cache">>,
       <<"Expires", "0">> >>
HTML_CACHE_HEADERS == << <<"Cache-Control", "public, max-age=3600">> >>
STATIC_CACHE_HEADERS == << <<"Cache-Control", "public, max-age=31536000">> >>

\* lines 50-58; self_path is self.path at the time of the call
cache_headers(self_path) ==
    LET p == lower(self_path)
    IN  IF endswith_any(p, STATIC_SUFFIXES) THEN STATIC_CACHE_HEADERS
        ELSE IF endswith(p, HTML_SUFFIX) THEN HTML_CACHE_HEADERS
        ELSE IF endswith(p, SW_SUFFIX) THEN NO_CACHE_HEADERS
        ELSE << >>

end_headers(self_path) == fixed_headers \o cache_headers(self_path)

(***************************************************************************)
(* Responses                                                               *)
(***************************************************************************)
\* BaseHTTPRequestHandler.send_response: the status line, then Server and Date
send_response(code) ==
    [ status |-> code,
      headers |-> << <<"Server", "SimpleHTTP">>, <<"Date", "now">> >>,
      body |-> NoContent ]

send_header(r, name, value) == [r EXCEPT !.headers = Append(@, <<name, value>>)]

\* Length of the error page send_error builds for the two calls of do_GET.
error_body_len(code) == IF code = 404 THEN 335 ELSE 341

error_body(code) == [src |-> << >>, len |-> error_body_len(code), encoding |-> "error"]

\* BaseHTTPRequestHandler.send_error, called at lines 111 and 114: one whole
\* response, whose headers are closed by the handler's own end_headers.
send_error(code, self_path) ==
    LET r0 == send_response(code)
        r1 == send_header(r0, "Connection", "close")
        r2 == send_header(r1, "Content-Type", "text/html;charset=utf-8")
        r3 == send_header(r2, "Content-Length", str(error_body_len(code)))
    IN  [r3 EXCEPT !.headers = @ \o end_headers(self_path),
                   !.body = error_body(code)]

\* Lengths gzip.GzipFile can produce for n bytes: the output depends on the
\* bytes, which the model does not keep (redundant data shrinks, random data
\* grows by the stored-block and gzip framing).
gzip_lengths(n) == { (n \div 8) + 18, n + 23 }

gzip_compress(c, g) == [src |-> c.src, len |-> g, encoding |-> "gzip"]

\* Mutation: >= in place of > at line 89.
should_compress_from_threshold(can_gzip_, content_type, content_) ==
    /\ can_gzip_
    /\ content_type \in compressible_types
    /\ content_.len >= MIN_COMPRESS_SIZE

\* line 89
should_compress(can_gzip_, content_type, content_) ==
    /\ can_gzip_
    /\ content_type \in compressible_types
    /\ content_.len > MIN_COMPRESS_SIZE

\* Mutation: the length taken before line 94 rebinds content.
content_length_before_gzip(raw, sent) == str(raw.len)

\* lines 98 and 106: str(len(content)), evaluated after line 94 has rebound
\* content to the gzip output; raw is the content as read at line 83.
content_length(raw, sent) == str(sent.len)

\* lines 96-99 and 104-106, with end_headers of lines 100 and 107
ok_response(content_type, raw, sent, compressed, self_path) ==
    LET r0 == send_response(200)
        r1 == send_header(r0, "Content-Type", content_type)
        r2 == send_header(r1, "Content-Length", content_length(raw, sent))
        r3 == IF compressed THEN send_header(r2, "Content-Encoding", "gzip") ELSE r2
    IN  [r3 EXCEPT !.headers = @ \o end_headers(self_path)]

\* Mutation: the FileNotFoundError clause of lines 110-111 missing.
except_status_without_404(exception) == 500

\* lines 110-114: the status the except clauses answer with
except_status(exception) == IF exception = "FileNotFoundError" THEN 404 ELSE 500

(***************************************************************************)
(* do_GET, lines 62-114                                                    *)
(***************************************************************************)
\* lines 64-67
special_paths(p) ==
    IF p = SW_JS_PATH THEN SW_JS_PATH
    ELSE IF p = ROOT_PATH \/ p = EMPTY THEN INDEX_PATH
    ELSE p

\* Mutation: the test of the excluded prefix without its `not`.
should_fallback_prefix_inverted(fsys, fp, self_path) ==
    /\ ~os_path_exists(fsys, fp)
    /\ startswith(self_path, PRIVACY_PREFIX)

\* line 73
should_fallback(fsys, fp, self_path) ==
    /\ ~os_path_exists(fsys, fp)
    /\ ~startswith(self_path, PRIVACY_PREFIX)

\* line 79
gzip_accepted(h) == contains(headers_get(h, EMPTY), GZIP_TOKEN)

VARIABLES
    fs,             \* the served directory: name -> entry
    fs_changes,     \* changes made to it by other processes so far
    pc,             \* where the handler stands in do_GET
    request_path,   \* self.path as received
    request_headers,\* self.headers, as far as Accept-Encoding goes
    path,           \* self.path
    file_path,      \* file_path
    can_gzip,       \* can_gzip
    content,        \* content
    exception,      \* the exception being handled, "none" if none
    checked,        \* what was at file_path when line 73 looked
    opened,         \* what was at file_path when line 82 opened it
    rewritten,      \* line 74 was executed
    responses       \* the responses sent for the request, in order

vars == << fs, fs_changes, pc, request_path, request_headers, path, file_path, can_gzip, content,
           exception, checked, opened, rewritten, responses >>

NoFilePath == [words |-> << >>, slash |-> FALSE]

\* main() has found the required files (lines 127-133) and serve_forever
\* waits for the first request.
Init ==
    /\ fs \in [Names -> Entries]
    /\ \A n \in required_files : fs[n].kind = "file"
    /\ fs_changes = 0
    /\ pc = "idle"
    /\ request_path = EMPTY
    /\ request_headers = << >>
    /\ path = EMPTY
    /\ file_path = NoFilePath
    /\ can_gzip = FALSE
    /\ content = NoContent
    /\ exception = "none"
    /\ checked = Absent
    /\ opened = Absent
    /\ rewritten = FALSE
    /\ responses = << >>

\* Another process creates, replaces or removes an entry of the directory.
\* do_GET looks at the directory at line 73 and at line 82 only, so a change
\* is taken before a request or between the two lines; a change at any other
\* moment is seen as one made before the next request.
fs_change(n, e) ==
    /\ pc \in {"idle", "open"}
    /\ fs_changes < MaxFsChanges
    /\ e # fs[n]
    /\ fs' = [fs EXCEPT ![n] = e]
    /\ fs_changes' = fs_changes + 1
    /\ UNCHANGED << pc, request_path, request_headers, path, file_path, can_gzip, content,
                    exception, checked, opened, rewritten, responses >>

\* lines 62-79: a new handler object receives GET p with headers h
do_GET_resolve(p, h) ==
    /\ pc = "idle"
    /\ LET p1 == special_paths(p)
           fp1 == translate_path(p1)
           fb == should_fallback(fs, fp1, p1)
       IN  /\ path' = IF fb THEN INDEX_PATH ELSE p1
           /\ file_path' = IF fb THEN translate_path(INDEX_PATH) ELSE fp1
           /\ checked' = stat(fs, fp1)
           /\ rewritten' = fb
    /\ request_path' = p
    /\ request_headers' = h
    /\ can_gzip' = gzip_accepted(h)
    /\ content' = NoContent
    /\ exception' = "none"
    /\ opened' = Absent
    /\ responses' = << >>
    /\ pc' = "open"
    /\ UNCHANGED << fs, fs_changes >>

\* lines 82-83
do_GET_open ==
    /\ pc = "open"
    /\ opened' = stat(fs, file_path)
    /\ IF open_error(fs, file_path) = "none"
       THEN /\ content' = file_read(fs, file_path)
            /\ pc' = "send"
            /\ UNCHANGED exception
       ELSE /\ exception' = open_error(fs, file_path)
            /\ pc' = "except"
            /\ UNCHANGED content
    /\ UNCHANGED << fs, fs_changes, request_path, request_headers, path, file_path, can_gzip,
                    checked, rewritten, responses >>

\* lines 86-100 and 104-107: status line and headers
do_GET_send ==
    /\ pc = "send"
    /\ LET content_type == guess_type(file_path)
       IN  IF should_compress(can_gzip, content_type, content)
           THEN \E g \in gzip_lengths(content.len) :
                   /\ content' = gzip_compress(content, g)
                   /\ responses' = Append(responses,
                          ok_response(content_type, content, content', TRUE, path))
           ELSE /\ responses' = Append(responses,
                          ok_response(content_type, content, content, FALSE, path))
                /\ UNCHANGED content
    /\ pc' = "write"
    /\ UNCHANGED << fs, fs_changes, request_path, request_headers, path, file_path, can_gzip,
                    exception, checked, opened, rewritten >>

\* lines 101 and 108: self.wfile.write(content) returns
do_GET_write ==
    /\ pc = "write"
    /\ responses' = [responses EXCEPT ![Len(responses)].body = content]
    /\ pc' = "done"
    /\ UNCHANGED << fs, fs_changes, request_path, request_headers, path, file_path, can_gzip,
                    content, exception, checked, opened, rewritten >>

\* lines 101 and 108: self.wfile.write(content) raises, the client having
\* closed the connection
do_GET_write_fails ==
    /\ pc = "write"
    /\ exception' = "BrokenPipeError"
    /\ pc' = "except"
    /\ UNCHANGED << fs, fs_changes, request_path, request_headers, path, file_path, can_gzip,
                    content, checked, opened, rewritten, responses >>

\* lines 110-114
do_GET_except ==
    /\ pc = "except"
    /\ responses' = Append(responses, send_error(except_status(exception), path))
    /\ pc' = "done"
    /\ UNCHANGED << fs, fs_changes, request_path, request_headers, path, file_path, can_gzip,
                    content, exception, checked, opened, rewritten >>

\* do_GET returns; the handler object and its fields are discarded and the
\* server waits for the next request.
finish ==
    /\ pc = "done"
    /\ pc' = "idle"
    /\ request_path' = EMPTY
    /\ request_headers' = << >>
    /\ path' = EMPTY
    /\ file_path' = NoFilePath
    /\ can_gzip' = FALSE
    /\ content' = NoContent
    /\ exception' = "none"
    /\ checked' = Absent
    /\ opened' = Absent
    /\ rewritten' = FALSE
    /\ responses' = << >>
    /\ UNCHANGED << fs, fs_changes >>

Next ==
    \/ \E n \in Names, e \in Entries : fs_change(n, e)
    \/ \E p \in Paths, h \in RequestHeaders : do_GET_resolve(p, h)
    \/ do_GET_open
    \/ do_GET_send
    \/ do_GET_write
    \/ do_GET_write_fails
    \/ do_GET_except
    \/ finish

Spec == Init /\ [][Next]_vars

(***************************************************************************)
(* Reading a response                                                      *)
(***************************************************************************)
header_values(r, name) ==
    LET hs == SelectSeq(r.headers, LAMBDA h : h[1] = name)
    IN  [i \in 1..Len(hs) |-> hs[i][2]]

headers_named(r, names) == SelectSeq(r.headers, LAMBDA h : h[1] \in names)

statuses == [i \in 1..Len(responses) |-> responses[i].status]

body_written(r) == r.body # NoContent

\* The body is the bytes of index.html, encoded or not.
is_index_body(b) == b.src = <<N_index>> /\ b.encoding \in {"identity", "gzip"}

Handled == pc = "done"

\* Nothing was at the requested path when line 73 looked.
NothingAtCheck == checked.kind \in {"absent", "enotdir"}
NothingAtOpen == opened.kind \in {"absent", "enotdir"}

ExcludedRequest == startswith(request_path, PRIVACY_PREFIX)

(***************************************************************************)
(* C1: SPA fallback                                                        *)
(***************************************************************************)
\* C1 as stated: a request for a path at which nothing exists and which does
\* not start with /privacy is answered with status 200 and the content of
\* index.html, never with a 404.
C1_AlwaysFallbackDocument ==
    (Handled /\ NothingAtCheck /\ ~ExcludedRequest) =>
        /\ responses[1].status = 200
        /\ 404 \notin { statuses[i] : i \in 1..Len(statuses) }
        /\ is_index_body(content)

\* C1 amended: such a request is rewritten to /index.html and answered with
\* what is at index.html when line 82 opens it: status 200 and the content
\* of index.html if it is then a readable regular file, a single 404 if it
\* is missing.
C1_FallbackToIndex ==
    (Handled /\ NothingAtCheck /\ ~ExcludedRequest) =>
        /\ rewritten
        /\ path = INDEX_PATH
        /\ file_path.words = <<N_index>>
        /\ opened.kind = "file" =>
              /\ responses[1].status = 200
              /\ is_index_body(content)
              /\ body_written(responses[1]) => is_index_body(responses[1].body)
              /\ 404 \notin { statuses[i] : i \in 1..Len(statuses) }
        /\ opened.kind = "absent" => statuses = <<404>>

C1_Witness ==
    /\ Handled
    /\ NothingAtCheck
    /\ request_path = <<"/", "u", "n", "k", "n", "o", "w", "n", "/", "r", "o", "u", "t", "e">>
    /\ statuses = <<200>>
    /\ is_index_body(responses[1].body)

(***************************************************************************)
(* C2: excluded prefix                                                     *)
(***************************************************************************)
\* C2: a request whose path starts with /privacy and has no backing file is
\* never rewritten to the fallback document and is answered with status 404.
C2_ExcludedPrefixIs404 ==
    (Handled /\ ExcludedRequest /\ NothingAtCheck /\ NothingAtOpen) =>
        /\ ~rewritten
        /\ statuses = <<404>>

(***************************************************************************)
(* C3: cache policy priority                                               *)
(***************************************************************************)
C3_CacheNames == {"Cache-Control", "Pragma", "Expires"}

\* The rule the claim gives: service worker first, then .html, then the
\* static suffixes, otherwise nothing.
C3_FirstMatch(p) ==
    IF lower(p) = SW_JS_PATH THEN NO_CACHE_HEADERS
    ELSE IF endswith(lower(p), HTML_SUFFIX) THEN HTML_CACHE_HEADERS
    ELSE IF endswith_any(lower(p), STATIC_SUFFIXES) THEN STATIC_CACHE_HEADERS
    ELSE << >>

\* C3: the cache headers of every response that serves a file are those of the first matching
\* rule in the order /sw.js, .html, static suffixes, none; in particular
\* /sw.js always carries the no-cache directives.
C3_CachePriority ==
    \A i \in 1..Len(responses) :
        responses[i].status = 200 =>
            headers_named(responses[i], C3_CacheNames) = C3_FirstMatch(path)

(***************************************************************************)
(* C4: the service worker is never SPA-redirected                          *)
(***************************************************************************)
\* C4: a request for exactly /sw.js is never rewritten to /index.html and
\* never answered with the fallback document, whether sw.js exists or not.
C4_ServiceWorkerNotRedirected ==
    (pc # "idle" /\ request_path = SW_JS_PATH) =>
        /\ ~rewritten
        /\ path = SW_JS_PATH
        /\ ~is_index_body(content)

(***************************************************************************)
(* C5: compression decision                                                *)
(***************************************************************************)
C5_ClientAcceptsGzip ==
    \E v \in { <<"b", "r", ",", " ", "g", "z", "i", "p">> } : request_headers = <<v>>

C5_Conditions(r) ==
    /\ C5_ClientAcceptsGzip
    /\ header_values(r, "Content-Type")[1] \in
          { "text/html", "text/css", "application/javascript", "application/json",
            "text/plain", "application/xml", "application/manifest+json",
            "image/svg+xml" }
    /\ opened.len > 1024

\* C5: a 200 response is gzip-encoded and carries Content-Encoding: gzip
\* exactly when the client accepts gzip, the content type is compressible
\* and the file is longer than 1024 bytes; otherwise it carries no
\* Content-Encoding header at all.
C5_CompressionDecision ==
    \A i \in 1..Len(responses) :
        responses[i].status = 200 =>
            LET r == responses[i]
            IN  /\ C5_Conditions(r) =>
                    /\ header_values(r, "Content-Encoding") = <<"gzip">>
                    /\ content.encoding = "gzip"
                    /\ body_written(r) => r.body.encoding = "gzip"
                /\ ~C5_Conditions(r) =>
                    /\ header_values(r, "Content-Encoding") = << >>
                    /\ content.encoding = "identity"
                    /\ body_written(r) => r.body.encoding = "identity"

\* A file of exactly 1024 bytes of a compressible type, gzip accepted: sent as is.
C5_Witness ==
    /\ Handled
    /\ statuses = <<200>>
    /\ C5_ClientAcceptsGzip
    /\ opened.len = 1024
    /\ header_values(responses[1], "Content-Type") = <<"text/html">>
    /\ responses[1].body.encoding = "identity"

(***************************************************************************)
(* C6: Content-Length                                                      *)
(***************************************************************************)
\* C6: the Content-Length of every response is the number of body bytes
\* written: the length of the gzip output on a compressed response, the
\* length of the file otherwise.
C6_ContentLengthExact ==
    \A i \in 1..Len(responses) :
        LET r == responses[i]
        IN  /\ Len(header_values(r, "Content-Length")) = 1
            /\ body_written(r) =>
                  header_values(r, "Content-Length") = <<str(r.body.len)>>
            /\ (r.status = 200 /\ pc = "write") =>
                  header_values(r, "Content-Length") = <<str(content.len)>>
            /\ (r.status = 200 /\ body_written(r)) =>
                  IF header_values(r, "Content-Encoding") = <<"gzip">>
                  THEN r.body.encoding = "gzip"
                  ELSE r.body.encoding = "identity" /\ r.body.len = opened.len

C6_Witness ==
    /\ Handled
    /\ statuses = <<200>>
    /\ responses[1].body.encoding = "gzip"
    /\ responses[1].body.len # opened.len
    /\ header_values(responses[1], "Content-Length") = <<str(responses[1].body.len)>>

(***************************************************************************)
(* C7: fixed headers                                                       *)
(***************************************************************************)
C7_SevenHeaders ==
    << <<"X-Content-Type-Options", "nosniff">>,
       <<"X-Frame-Options", "DENY">>,
       <<"X-XSS-Protection", "1; mode=block">>,
       <<"Referrer-Policy", "strict-origin-when-cross-origin">>,
       <<"Access-Control-Allow-Origin", "*">>,
       <<"Access-Control-Allow-Methods", "GET, POST, OPTIONS">>,
       <<"Access-Control-Allow-Headers", "Content-Type">> >>

C7_Names == { C7_SevenHeaders[i][1] : i \in 1..Len(C7_SevenHeaders) }

\* C7: every response, whatever its status, carries the seven fixed
\* headers, each once and in the given order.
C7_FixedHeaders ==
    \A i \in 1..Len(responses) :
        /\ responses[i].status \in {200, 404, 500}
        /\ headers_named(responses[i], C7_Names) = C7_SevenHeaders

\* A request answered 200 and then, the write of the body failing, 500.
C7_Witness ==
    /\ Handled
    /\ statuses = <<200, 500>>
    /\ headers_named(responses[2], C7_Names) = C7_SevenHeaders

(***************************************************************************)
(* C8: file removed between the check and the read                         *)
(***************************************************************************)
RemovedBeforeOpen == checked.kind = "file" /\ opened.kind = "absent"

\* C8 as stated: a file that exists at line 73 and is removed before line 82
\* opens it gives status 500.
C8_RaceIs500 ==
    (Handled /\ RemovedBeforeOpen) => statuses = <<500>>

\* C8 amended: such a request ends with status 404 (the FileNotFoundError
\* clause), not with 500 and not with the fallback document.
C8_RaceIs404 ==
    (Handled /\ RemovedBeforeOpen) =>
        /\ statuses = <<404>>
        /\ ~rewritten
        /\ responses[1].body.encoding = "error"

C8_Witness ==
    /\ Handled
    /\ RemovedBeforeOpen
    /\ request_path = SW_JS_PATH

(***************************************************************************)
(* C9: one response per request                                            *)
(***************************************************************************)
\* C9: every request gets exactly one status line; no failure, the failure
\* of the body write after the 200 included, leads to a second one.
C9_OneResponse ==
    /\ Len(responses) <= 1
    /\ Handled => Len(responses) = 1

(***************************************************************************)
(* C10: an existing directory                                              *)
(***************************************************************************)
IsDirectoryRequest == checked.kind = "dir" /\ opened.kind = "dir"

\* C10: a request whose path resolves to an existing directory is not
\* rewritten to index.html; the read fails with an error other than
\* FileNotFoundError and the response is 500.
C10_DirectoryIs500 ==
    (Handled /\ IsDirectoryRequest) =>
        /\ ~rewritten
        /\ path = INDEX_PATH => request_path \in {EMPTY, ROOT_PATH, INDEX_PATH}
        /\ exception \notin {"none", "FileNotFoundError"}
        /\ statuses = <<500>>

\* A sub-directory of the root.
C10_Witness ==
    /\ Handled
    /\ IsDirectoryRequest
    /\ request_path = <<"/", "l", "o", "g", "o", ".", "p", "n", "g">>
    /\ statuses = <<500>>
====
